---- MODULE Spec2Model ----
(***************************************************************************)
(* A model of simple-crs (src/crs.py): the status store (get_status), the  *)
(* lifecycle controller (main), the orchestrator (compete) and the         *)
(* submission worker (_submit_loop / submit_solution).                     *)
(*                                                                         *)
(* Time is a discrete clock in seconds.  Computation is instantaneous: the *)
(* clock advances only while every modelled thread is blocked in           *)
(* time.sleep or Thread.join, and never past a pending wake-up, so a       *)
(* sleeper wakes exactly when its sleep ends.                              *)
(***************************************************************************)
EXTENDS Integers, Sequences, FiniteSets, TLC

(* ---------------------------- bounds ----------------------------------- *)

\* The clock stops advancing after MaxSteps steps of TimeStep seconds.
MaxSteps == 12
\* An epoch lasts EpochSteps steps of TimeStep seconds.
EpochSteps == 6
\* Epoch ids (rode0day_id) are 1..NumEpochs; 0 stands for a null id.
NumEpochs == 2
\* Challenge ids are 1..NumChallenges.
NumChallenges == 2
\* Crash files (artifact paths) are 1..NumPaths.
NumPaths == 2
\* Bug ids are 1..NumBugs.
NumBugs == 2
\* The service answers a submission with an error at most MaxErrors times.
MaxErrors == 2

(* ------------------------ program constants ---------------------------- *)

NoStatusSleep == 60
EndedSleep == 60
UnknownStartSleep == 3600
ErrorSleep == 10
RateLimitStatus == 7
RateLimitSleep == 60
PollSleep == 30
\* The depth of nested calls at which CPython raises RecursionError
\* (sys.getrecursionlimit(), which the program leaves at its default); the
\* frames of the thread and of the library calls count too, so the real
\* depth submit_solution can reach is somewhat smaller.
RecursionLimit == 1000

\* The granularity of the clock: the shortest sleep of the program.
TimeStep == ErrorSleep
MaxTime == MaxSteps * TimeStep
EpochLen == EpochSteps * TimeStep

Epochs == 1..NumEpochs
Challenges == 1..NumChallenges
Paths == 1..NumPaths
BugIds == 1..NumBugs

\* The declared end of epoch e, and the challenge ids its status lists.
EpochEnd(e) == e * EpochLen
EpochChallenges(e) == {c \in Challenges : c >= e}

Max(a, b) == IF a >= b THEN a ELSE b

\* A history counter that stops at 2: none, one, more than one.
UpTo2(n) == IF n < 2 THEN n + 1 ELSE n

\* x in list, for a Python list.
InList(x, list) == \E i \in 1..Len(list) : list[i] = x

\* The members of a set of numbers in ascending order: the order in which
\* the model iterates info['challenges'] and the files of a glob.
RECURSIVE Ascending(_)
Ascending(S) ==
    IF S = {} THEN <<>>
    ELSE LET m == CHOOSE x \in S : \A y \in S : x <= y
         IN  <<m>> \o Ascending(S \ {m})

(* ------------------------- status documents ---------------------------- *)

\* A status document (the parsed latest.yaml), a None, or an HTTP error.
\* hasId: the key 'rode0day_id' is present; id = 0: its value is null.
\* hasEnd: the key 'end' is present.  nextKey: the key 'next_start' is
\* "missing", present with a "null" value, or "set" to the time next.
Blank ==
    [kind |-> "none", hasId |-> FALSE, id |-> 0, hasEnd |-> FALSE, end |-> 0,
     nextKey |-> "missing", next |-> 0]

None == Blank

HttpError == [Blank EXCEPT !.kind = "http_error"]

NoIdDoc == [Blank EXCEPT !.kind = "doc"]

WaitingDoc(nk, t) ==
    [Blank EXCEPT !.kind = "doc", !.hasId = TRUE, !.nextKey = nk, !.next = t]

ActiveDoc(e, he) ==
    [Blank EXCEPT !.kind = "doc", !.hasId = TRUE, !.id = e, !.hasEnd = he,
                  !.end = IF he THEN EpochEnd(e) ELSE 0]

\* What the remote service may answer to GET latest.yaml.
RemoteAnswers ==
    {HttpError, NoIdDoc, WaitingDoc("missing", 0), WaitingDoc("null", 0)}
    \cup {WaitingDoc("set", EpochEnd(e)) : e \in Epochs}
    \cup {ActiveDoc(e, he) : e \in Epochs, he \in BOOLEAN}

\* status["challenge_ids"] of an active document.
ChallengeIds(doc) == EpochChallenges(doc.id)

(* ----------------------------- get_status ------------------------------ *)

Outcome(ret, raised, file, fetched, wrote) ==
    [ret |-> ret, raised |-> raised, file |-> file, fetched |-> fetched,
     wrote |-> wrote]

\* Line 52: the cached copy is used only with an 'end' still in the future.
CacheValid(data, now) == data.hasEnd /\ now < data.end

\* Lines 59-84: fetch latest.yaml, validate it, cache it.
Fetch(rem, file) ==
    IF rem.kind = "http_error" THEN Outcome(None, "", file, TRUE, FALSE)
    ELSE IF ~rem.hasId THEN Outcome(None, "", file, TRUE, FALSE)
    ELSE IF rem.id = 0 THEN
        IF rem.nextKey = "missing"
            THEN Outcome(None, "KeyError", file, TRUE, FALSE)
        ELSE IF rem.nextKey = "set" THEN Outcome(rem, "", file, TRUE, FALSE)
        ELSE Outcome(None, "", file, TRUE, FALSE)
    ELSE Outcome(rem, "", rem, TRUE, TRUE)

\* Lines 39-84.  file is the content of cache/latest.yaml (kind "none": no
\* such file), rem what the remote would answer now.
get_status(file, now, force, rem) ==
    IF file.kind = "doc" /\ ~force THEN
        IF file.id = 0 THEN Fetch(rem, file)
        ELSE IF CacheValid(file, now)
            THEN Outcome(file, "", file, FALSE, FALSE)
        ELSE Fetch(rem, file)
    ELSE Fetch(rem, file)

(* -------------------------- the submission cache ----------------------- *)

\* No result: the local of a submit_solution call that has not got one.
NoResult == [status |-> 1, bug_ids |-> {}, first_ids |-> {}]

\* The dict submit_solution keeps per challenge: the key "submitted_files"
\* (hasFiles: the key is present) and one key per bug id.
EmptyBugs == [b \in {} |-> [first |-> FALSE, found_at |-> 0]]

EmptyDict == [hasFiles |-> FALSE, files |-> <<>>, bugs |-> EmptyBugs]

\* cache/<challenge_id>.pickle: absent, or the pickled items of the dict.
NoFile == [exists |-> FALSE, items |-> <<>>]

FilesItem(list) ==
    [key |-> "submitted_files", id |-> 0, first |-> FALSE, found_at |-> 0,
     files |-> list]

BugItem(b, rec) ==
    [key |-> "bug", id |-> b, first |-> rec.first, found_at |-> rec.found_at,
     files |-> <<>>]

BugItems(bugs) ==
    LET ids == Ascending(DOMAIN bugs)
    IN  [i \in 1..Len(ids) |-> BugItem(ids[i], bugs[ids[i]])]

\* pickle.dump(cache, f), line 238: one item per key of the dict.
Dump(cache) ==
    [exists |-> TRUE,
     items |-> (IF cache.hasFiles THEN <<FilesItem(cache.files)>> ELSE <<>>)
               \o BugItems(cache.bugs)]

\* A write of lines 237-238 cut short: open(.., "wb") has emptied the
\* file and pickle.dump has written the first n items, without the end.
Cut == [key |-> "cut", id |-> 0, first |-> FALSE, found_at |-> 0,
        files |-> <<>>]

Truncated(file, n) ==
    [exists |-> TRUE, items |-> SubSeq(file.items, 1, n) \o <<Cut>>]

\* pickle.load (line 174) raises EOFError or UnpicklingError on a pickle
\* without its end.
Readable(file) == \A i \in 1..Len(file.items) : file.items[i].key # "cut"

\* pickle.load, line 174: the dict of the pickled items.
Load(file) ==
    LET fi == {i \in 1..Len(file.items) :
                    file.items[i].key = "submitted_files"}
        bi == {i \in 1..Len(file.items) : file.items[i].key = "bug"}
        at(b) == file.items[CHOOSE i \in bi : file.items[i].id = b]
    IN  [hasFiles |-> fi # {},
         files |-> IF fi = {} THEN <<>>
                   ELSE file.items[CHOOSE i \in fi : TRUE].files,
         bugs |-> [b \in {file.items[i].id : i \in bi} |->
                    [first |-> at(b).first, found_at |-> at(b).found_at]]]

\* Lines 171-182: the cache of the challenge, with its list of files.
ReadCache(file) ==
    LET cache == IF file.exists THEN Load(file) ELSE EmptyDict
    IN  IF cache.hasFiles THEN cache
        ELSE [cache EXCEPT !.hasFiles = TRUE, !.files = <<>>]

\* Line 184 without the test.
AlreadySubmitted_Never(cache, path) == FALSE

\* Line 184: file_path in cache["submitted_files"].
AlreadySubmitted(cache, path) == InList(path, cache.files)

\* What the service answers to a submission it accepts (line 205): with
\* status 0 any bug_ids and first_ids among them; with status 1 (no crash)
\* or 2 (an error of the service) the code reads bug_ids only to return it.
Results ==
    UNION {{[status |-> 0, bug_ids |-> B, first_ids |-> F] : F \in SUBSET B} :
            B \in SUBSET BugIds}
    \cup {[status |-> st, bug_ids |-> B, first_ids |-> {}] :
            st \in {1, 2}, B \in SUBSET BugIds}

\* Line 219 without the test: every reported bug counts as new.
NewBugs_All(cache, result) ==
    IF result.status = 0 THEN result.bug_ids ELSE {}

\* Lines 211-221: new_bugs, the reported bugs the cache does not hold.
NewBugs(cache, result) ==
    IF result.status = 0
        THEN {b \in result.bug_ids : b \notin DOMAIN cache.bugs}
        ELSE {}

\* Lines 212-218: firsts, the reported bugs the result lists in first_ids.
Firsts(result) ==
    IF result.status = 0 THEN result.bug_ids \cap result.first_ids ELSE {}

\* Lines 213-221 with the 'first' flag of line 216 never set.
RecordBugs_NoFirst(cache, result, now) ==
    IF result.status = 0
        THEN [cache EXCEPT !.bugs =
                [b \in DOMAIN cache.bugs \cup result.bug_ids |->
                    IF b \in DOMAIN cache.bugs THEN cache.bugs[b]
                    ELSE [first |-> FALSE, found_at |-> now]]]
        ELSE cache

\* Lines 214-221 without the test of line 213: the bugs of a result of
\* any status are recorded.
RecordBugs_AnyStatus(cache, result, now) ==
    [cache EXCEPT !.bugs =
        [b \in DOMAIN cache.bugs \cup result.bug_ids |->
            IF b \in DOMAIN cache.bugs THEN cache.bugs[b]
            ELSE [first |-> b \in result.first_ids, found_at |-> now]]]

\* Lines 213-221: a record for every reported bug the cache does not hold.
RecordBugs(cache, result, now) ==
    IF result.status = 0
        THEN [cache EXCEPT !.bugs =
                [b \in DOMAIN cache.bugs \cup result.bug_ids |->
                    IF b \in DOMAIN cache.bugs THEN cache.bugs[b]
                    ELSE [first |-> b \in result.first_ids,
                          found_at |-> now]]]
        ELSE cache

\* Lines 236-238 moved into the branch of line 213: the cache is written
\* only for a result with status 0.
Persist_OnlyCrash(cache, result, old) ==
    IF result.status = 0 THEN Dump(cache) ELSE old

\* Lines 236-238: the cache file after the write.
Persist(cache, result, old) == Dump(cache)

(* ------------------------------- state --------------------------------- *)

VARIABLES
    clock,       \* datetime.utcnow(), in seconds
    statusFile,  \* cache/latest.yaml (kind "none": no such file)
    gs,          \* the latest direct call of get_status (Refresh)
    m_pc,        \* main: where the controller is
    m_status,    \* main: status (line 336)
    m_wake,      \* main: when the pending time.sleep / join timeout ends
    m_branch,    \* main: which branch of the loop started the pending sleep
    m_err,       \* main: the exception that ended the process ("" if none)
    m_answer,    \* what the remote answered to the lookup of line 336, if asked
    finished,    \* main: finished (line 333)
    c_status,    \* compete: status (line 304)
    c_info,      \* compete: info["rode0day_id"] (line 306)
    c_joinStart, \* compete: the time the join loop (line 324) was entered
    joinQ,       \* compete: fuzz_threads still to be joined
    fuzzAlive,   \* fuzz threads of the latest compete() still running
    submitters,  \* per challenge id: submission threads running
    runs,        \* every compete(): the controller's id and the id it ran
    crashDir,    \* the files the glob of line 296 matches
    cacheFile,   \* per challenge id: cache/<id>.pickle
    w_pc,        \* submission thread: where it is
    w_challenge, \* submission thread: challenge_id
    w_todo,      \* _submit_loop: the paths of the glob still to be submitted
    w_path,      \* submit_solution: file_path
    w_status,    \* submit_solution: status
    w_cache,     \* submit_solution: cache
    w_depth,     \* submit_solution: nested calls below the one of line 297
    w_wake,      \* submission thread: when the pending time.sleep ends
    w_after,     \* submission thread: what follows the pending time.sleep
    w_err,       \* the exception that ended the submission thread
    w_result,    \* submit_solution: result (line 205) of the call that returned
    w_last,      \* how the latest call of line 297 ended
    w_naps,      \* cool-down sleeps (line 198) of the current call of line 297
    w_calls,     \* POSTs (line 190) of the current call of line 297
    posts,       \* per path: POSTs so far
    accepted,    \* per path: POSTs answered without an HTTP error so far
    calls,       \* per path: calls of line 297 so far (counted up to 2)
    errors,      \* HTTP errors the service has answered so far
    reported,    \* per bug id: results with status 0 listing it (up to 2)
    announced,   \* per bug id: 'Found new bug(s)' logs listing it (up to 2)
    o_pc,        \* another submission thread of w_challenge: where it is
    o_path,      \* its submit_solution: file_path
    o_cache      \* its submit_solution: cache

statusVars == <<clock, statusFile, gs>>
mainVars == <<m_pc, m_status, m_wake, m_branch, m_err, m_answer, finished>>
competeVars == <<c_status, c_info, c_joinStart, joinQ, fuzzAlive, submitters,
                 runs>>
workerVars == <<crashDir, cacheFile, w_pc, w_challenge, w_todo, w_path,
                w_status, w_cache, w_depth, w_wake, w_after, w_err, w_result,
                w_last, w_naps, w_calls, posts, accepted, calls, errors,
                reported, announced>>
otherVars == <<o_pc, o_path, o_cache>>
vars == <<statusVars, mainVars, competeVars, workerVars, otherVars>>

\* The record of a get_status call; seq flips at every call.
Called(force, r) ==
    [seq |-> 1 - gs.seq, force |-> force, ret |-> r.ret, raised |-> r.raised,
     fetched |-> r.fetched, wrote |-> r.wrote]

InitStatus ==
    /\ clock = 0
    /\ statusFile = Blank
    /\ gs = [seq |-> 0, force |-> FALSE, ret |-> None, raised |-> "",
             fetched |-> FALSE, wrote |-> FALSE]

InitMain ==
    /\ m_pc = "get_status"
    /\ m_status = None
    /\ m_wake = 0
    /\ m_branch = ""
    /\ m_err = ""
    /\ m_answer = Blank
    /\ finished = <<>>

InitCompete ==
    /\ c_status = None
    /\ c_info = 0
    /\ c_joinStart = 0
    /\ joinQ = <<>>
    /\ fuzzAlive = {}
    /\ submitters = [c \in Challenges |-> 0]
    /\ runs = <<>>

\* No submission thread is modelled: _submit_loop has not been entered.
InitNoWorker ==
    /\ crashDir = {}
    /\ cacheFile = [c \in Challenges |-> NoFile]
    /\ w_pc = "none"
    /\ w_challenge = 1
    /\ w_todo = <<>>
    /\ w_path = 1
    /\ w_status = None
    /\ w_cache = EmptyDict
    /\ w_depth = 0
    /\ w_wake = 0
    /\ w_after = ""
    /\ w_err = ""
    /\ w_result = NoResult
    /\ w_last = ""
    /\ w_naps = 0
    /\ w_calls = 0
    /\ posts = [p \in Paths |-> 0]
    /\ accepted = [p \in Paths |-> 0]
    /\ calls = [p \in Paths |-> 0]
    /\ errors = 0
    /\ reported = [b \in BugIds |-> 0]
    /\ announced = [b \in BugIds |-> 0]
    /\ o_pc = "none"
    /\ o_path = 1
    /\ o_cache = EmptyDict

Init == InitStatus /\ InitMain /\ InitCompete /\ InitNoWorker

(* ---------------------------- environment ------------------------------ *)

\* An external fuzzing process exits (line 288 returns or raises).
FuzzExit ==
    /\ m_err = ""
    /\ \E c \in fuzzAlive : fuzzAlive' = fuzzAlive \ {c}
    /\ UNCHANGED <<otherVars, workerVars, statusVars, mainVars, c_status,
                   c_info, c_joinStart, joinQ, submitters, runs>>

\* Lines 165-169 in a running submission thread of some challenge: every
\* call of line 297 looks the status up (with the side effects of
\* get_status), and an exception ends the thread: a None status, a waiting
\* document, or a status that does not list the thread's challenge.
SubmitterLookup ==
    /\ m_err = ""
    /\ \E c \in Challenges, rem \in RemoteAnswers :
        LET r == get_status(statusFile, clock, FALSE, rem)
            raises == \/ r.raised # ""
                      \/ r.ret = None
                      \/ r.ret.id = 0
                      \/ c \notin ChallengeIds(r.ret)
        IN  /\ submitters[c] > 0
            /\ statusFile' = r.file
            /\ submitters' = IF raises
                                THEN [submitters EXCEPT ![c] = @ - 1]
                                ELSE submitters
    /\ UNCHANGED <<otherVars, workerVars, clock, gs, mainVars, c_status, c_info,
                   c_joinStart, joinQ, fuzzAlive, runs>>

(* -------------------------------- main --------------------------------- *)

\* An uncaught exception in the main thread ends the process.
Crash(err) ==
    /\ m_pc' = "crashed"
    /\ m_err' = err
    /\ UNCHANGED <<otherVars, m_wake, m_branch>>

\* time.sleep(d): a negative d raises ValueError.
Sleep(d, branch) ==
    IF d < 0 THEN Crash("ValueError")
    ELSE /\ m_pc' = "sleep"
         /\ m_wake' = clock + d
         /\ m_branch' = branch
         /\ m_err' = m_err

\* Line 336.
MainGetStatus ==
    /\ m_pc = "get_status"
    /\ \E rem \in RemoteAnswers :
        LET r == get_status(statusFile, clock, FALSE, rem) IN
        /\ statusFile' = r.file
        /\ m_answer' = IF r.fetched THEN rem ELSE Blank
        /\ IF r.raised # ""
            THEN Crash(r.raised) /\ m_status' = m_status
            ELSE /\ m_status' = r.ret
                 /\ m_pc' = "check"
                 /\ UNCHANGED <<m_wake, m_branch, m_err>>
    /\ UNCHANGED <<otherVars, workerVars, clock, gs, finished, competeVars>>

\* Lines 337-340.
MainNoStatus ==
    /\ m_pc = "check"
    /\ m_status = None
    /\ Sleep(NoStatusSleep, "none")
    /\ UNCHANGED <<otherVars, workerVars, statusVars, m_status, m_answer,
                   finished, competeVars>>

\* Lines 342-351.
MainWaiting ==
    /\ m_pc = "check"
    /\ m_status # None
    /\ m_status.id = 0
    /\ IF m_status.nextKey = "missing"
        THEN Sleep(UnknownStartSleep, "unknown")
        ELSE IF m_status.nextKey = "null" THEN Crash("TypeError")
        ELSE Sleep(m_status.next - clock, "waiting")
    /\ UNCHANGED <<otherVars, workerVars, statusVars, m_status, m_answer,
                   finished, competeVars>>

\* Lines 353-356; status['end'] raises KeyError when the key is missing.
MainEnded ==
    /\ m_pc = "check"
    /\ m_status # None
    /\ m_status.id # 0
    /\ ~(m_status.hasEnd /\ clock <= m_status.end)
    /\ IF ~m_status.hasEnd THEN Crash("KeyError")
        ELSE Sleep(EndedSleep, "ended")
    /\ UNCHANGED <<otherVars, workerVars, statusVars, m_status, m_answer,
                   finished, competeVars>>

\* Line 358: the epoch of this status has already been competed in.
IsFinished(status, done) == InList(status.id, done)

\* Lines 358-362.
MainStale ==
    /\ m_pc = "check"
    /\ m_status # None
    /\ m_status.id # 0
    /\ m_status.hasEnd
    /\ clock <= m_status.end
    /\ IsFinished(m_status, finished)
    /\ Sleep(m_status.end - clock, "stale")
    /\ UNCHANGED <<otherVars, workerVars, statusVars, m_status, m_answer,
                   finished, competeVars>>

\* Line 364: call compete().
MainCompete ==
    /\ m_pc = "check"
    /\ m_status # None
    /\ m_status.id # 0
    /\ m_status.hasEnd
    /\ clock <= m_status.end
    /\ ~IsFinished(m_status, finished)
    /\ m_pc' = "compete"
    /\ UNCHANGED <<otherVars, workerVars, statusVars, m_status, m_answer,
                   m_wake, m_branch, m_err, finished, competeVars>>

\* time.sleep returns; the loop continues at line 336.
MainWake ==
    /\ m_pc = "sleep"
    /\ clock >= m_wake
    /\ m_pc' = "get_status"
    /\ UNCHANGED <<otherVars, workerVars, statusVars, m_status, m_answer,
                   m_wake, m_branch, m_err, finished, competeVars>>

\* Line 365 without the append.
Finish_Forget(done, status) == done

\* Line 365, after compete() has returned.
Finish(done, status) == Append(done, status.id)

MainFinish ==
    /\ m_pc = "finish"
    /\ finished' = Finish(finished, m_status)
    /\ m_pc' = "get_status"
    /\ UNCHANGED <<otherVars, workerVars, statusVars, m_status, m_answer,
                   m_wake, m_branch, m_err, competeVars>>

(* ------------------------------ compete -------------------------------- *)

\* Line 304.
CompeteGetStatus ==
    /\ m_pc = "compete"
    /\ \E rem \in RemoteAnswers :
        LET r == get_status(statusFile, clock, FALSE, rem) IN
        /\ statusFile' = r.file
        /\ IF r.raised # ""
            THEN Crash(r.raised) /\ c_status' = c_status
            ELSE /\ c_status' = r.ret
                 /\ m_pc' = "prepare"
                 /\ UNCHANGED <<m_wake, m_branch, m_err>>
    /\ UNCHANGED <<otherVars, workerVars, clock, gs, m_status, m_answer,
                   finished, c_info, c_joinStart, joinQ, fuzzAlive, submitters,
                   runs>>

\* What get_competition and parse_info find for the epoch: the materials
\* with an info.yaml that agrees with the status ("ok"), no info.yaml
\* ("missing": the download failed, line 108), or an info.yaml of another
\* rode0day_id ("disagree").
Materials == {"ok", "missing", "disagree"}

\* Lines 305-306.  With status None (line 90, line 123) both functions call
\* get_status() themselves; compete's own status stays None.
CompetePrepare ==
    /\ m_pc = "prepare"
    /\ \E mat \in Materials, rem \in RemoteAnswers :
        LET own == c_status = None
            r == get_status(statusFile, clock, FALSE, rem)
            st == IF own THEN r.ret ELSE c_status
            err == IF own /\ r.raised # "" THEN r.raised
                   ELSE IF st = None THEN "TypeError"
                   ELSE IF st.id = 0 THEN "KeyError"
                   ELSE IF mat # "ok" THEN "RuntimeError"
                   ELSE ""
        IN  /\ statusFile' = IF own THEN r.file ELSE statusFile
            /\ IF err # ""
                THEN Crash(err) /\ c_info' = c_info
                ELSE /\ c_info' = st.id
                     /\ m_pc' = "start"
                     /\ UNCHANGED <<m_wake, m_branch, m_err>>
    /\ UNCHANGED <<otherVars, workerVars, clock, gs, m_status, m_answer,
                   finished, c_status, c_joinStart, joinQ, fuzzAlive,
                   submitters, runs>>

\* Lines 307-322: one fuzz thread and one submission thread per challenge.
CompeteStart ==
    /\ m_pc = "start"
    /\ fuzzAlive' = EpochChallenges(c_info)
    /\ joinQ' = Ascending(EpochChallenges(c_info))
    /\ submitters' = [c \in Challenges |->
                        IF c \in EpochChallenges(c_info)
                            THEN submitters[c] + 1 ELSE submitters[c]]
    /\ runs' = Append(runs, [main |-> m_status.id, ran |-> c_info])
    /\ c_joinStart' = clock
    /\ m_pc' = "join"
    /\ UNCHANGED <<otherVars, workerVars, statusVars, m_status, m_answer,
                   m_wake, m_branch, m_err, finished, c_status, c_info>>

\* The timeout computed once, before the loop of line 324.
JoinTimeout_Once(status, now, loopStart) == status.end - loopStart

\* Line 327: the timeout of the next join, computed right before it.
JoinTimeout(status, now, loopStart) == status.end - now

\* Lines 324-328: join the next fuzz thread; a negative timeout does not
\* block.  status['end'] raises on a None status or a missing key.
CompeteJoin ==
    /\ m_pc = "join"
    /\ joinQ # <<>>
    /\ IF c_status = None THEN Crash("TypeError")
        ELSE IF ~c_status.hasEnd THEN Crash("KeyError")
        ELSE /\ m_pc' = "joining"
             /\ m_wake' = clock + Max(0, JoinTimeout(c_status, clock,
                                                     c_joinStart))
             /\ UNCHANGED <<m_branch, m_err>>
    /\ UNCHANGED <<otherVars, workerVars, statusVars, m_status, m_answer,
                   finished, competeVars>>

\* thread.join returns: the thread has ended or the timeout has run out.
CompeteJoined ==
    /\ m_pc = "joining"
    /\ ~(Head(joinQ) \in fuzzAlive /\ clock < m_wake)
    /\ joinQ' = Tail(joinQ)
    /\ m_pc' = "join"
    /\ UNCHANGED <<otherVars, workerVars, statusVars, m_status, m_answer,
                   m_wake, m_branch, m_err, finished, c_status, c_info,
                   c_joinStart, fuzzAlive, submitters, runs>>

\* compete() returns after the last join.
CompeteReturn ==
    /\ m_pc = "join"
    /\ joinQ = <<>>
    /\ m_pc' = "finish"
    /\ UNCHANGED <<otherVars, workerVars, statusVars, m_status, m_answer,
                   m_wake, m_branch, m_err, finished, competeVars>>

(* ------------------ _submit_loop and submit_solution ------------------- *)

\* An uncaught exception ends the submission thread.
WorkerDead(err) ==
    /\ w_pc' = "dead"
    /\ w_err' = err

WorkerSleep(d, after) ==
    /\ w_pc' = "sleep"
    /\ w_wake' = clock + d
    /\ w_after' = after

\* Line 296: glob.glob(path).  The fuzzer only adds crash files; those it
\* has added since the previous glob are seen now.
SubmitLoopGlob ==
    /\ w_pc = "glob"
    /\ \E added \in SUBSET (Paths \ crashDir) :
        /\ crashDir' = crashDir \cup added
        /\ w_todo' = Ascending(crashDir \cup added)
    /\ w_pc' = "loop"
    /\ UNCHANGED <<otherVars, statusVars, mainVars, competeVars, cacheFile,
                   w_challenge, w_path, w_status, w_cache, w_depth, w_wake,
                   w_after, w_err, w_result, w_last, w_naps, w_calls, posts,
                   accepted, calls, errors, reported, announced>>

\* Lines 296-297: the next file of the glob is handed to submit_solution.
SubmitLoopCall ==
    /\ w_pc = "loop"
    /\ w_todo # <<>>
    /\ w_path' = Head(w_todo)
    /\ w_todo' = Tail(w_todo)
    /\ calls' = [calls EXCEPT ![Head(w_todo)] = UpTo2(@)]
    /\ w_depth' = 0
    /\ w_naps' = 0
    /\ w_calls' = 0
    /\ w_last' = ""
    /\ w_result' = NoResult
    /\ w_pc' = "call"
    /\ UNCHANGED <<otherVars, statusVars, mainVars, competeVars, crashDir,
                   cacheFile, w_challenge, w_status, w_cache, w_wake, w_after,
                   w_err, posts, accepted, errors, reported, announced>>

\* Line 298: after the last file, time.sleep(30).
SubmitLoopSleep ==
    /\ w_pc = "loop"
    /\ w_todo = <<>>
    /\ WorkerSleep(PollSleep, "glob")
    /\ w_result' = NoResult
    /\ w_last' = ""
    /\ UNCHANGED <<otherVars, statusVars, mainVars, competeVars, crashDir,
                   cacheFile, w_challenge, w_todo, w_path, w_status, w_cache,
                   w_depth, w_err, w_naps, w_calls, posts, accepted, calls,
                   errors, reported, announced>>

\* Lines 165-169: the status of the competition; the challenge must be
\* one of its challenge_ids (a None status or a waiting document, which
\* has no challenge_ids, raises).
SubmitCall ==
    /\ w_pc = "call"
    /\ \E rem \in RemoteAnswers :
       LET r == get_status(statusFile, clock, FALSE, rem)
           err == IF r.raised # "" THEN r.raised
                  ELSE IF r.ret = None THEN "TypeError"
                  ELSE IF r.ret.id = 0 THEN "KeyError"
                  ELSE IF w_challenge \notin ChallengeIds(r.ret)
                      THEN "ValueError"
                  ELSE ""
       IN  /\ statusFile' = r.file
           /\ IF err # ""
               THEN WorkerDead(err) /\ w_status' = None
               ELSE w_pc' = "load" /\ w_err' = w_err /\ w_status' = r.ret
    /\ UNCHANGED <<otherVars, clock, gs, mainVars, competeVars, crashDir,
                   cacheFile, w_challenge, w_todo, w_path, w_cache, w_depth,
                   w_wake, w_after, w_result, w_last, w_naps, w_calls, posts,
                   accepted, calls, errors, reported, announced>>

\* Lines 171-186: load the cache; return if the file was submitted before.
\* A file pickle.load cannot read is logged (lines 175-176) and leaves
\* cache unbound: line 181 raises UnboundLocalError.
SubmitLoad ==
    /\ w_pc = "load"
    /\ IF ~Readable(cacheFile[w_challenge])
        THEN /\ WorkerDead("UnboundLocalError")
             /\ UNCHANGED <<w_cache, w_last>>
        ELSE LET cache == ReadCache(cacheFile[w_challenge]) IN
             /\ w_cache' = cache
             /\ w_err' = w_err
             /\ IF AlreadySubmitted(cache, w_path)
                 THEN w_pc' = "loop" /\ w_last' = "skip"
                 ELSE w_pc' = "post" /\ w_last' = w_last
    /\ UNCHANGED <<otherVars, statusVars, mainVars, competeVars, crashDir,
                   cacheFile, w_challenge, w_todo, w_path, w_status, w_depth,
                   w_wake, w_after, w_result, w_naps, w_calls, posts, accepted,
                   calls, errors, reported, announced>>

\* Lines 188-199: the POST is answered with HTTP error status 7; the
\* thread sleeps a minute before it calls submit_solution again.
PostRateLimitedUpTo(limit) ==
    /\ w_pc = "post"
    /\ errors < limit
    /\ errors' = errors + 1
    /\ posts' = [posts EXCEPT ![w_path] = @ + 1]
    /\ w_calls' = w_calls + 1
    /\ WorkerSleep(RateLimitSleep, "retry")
    /\ UNCHANGED <<otherVars, statusVars, mainVars, competeVars, crashDir,
                   cacheFile, w_challenge, w_todo, w_path, w_status, w_cache,
                   w_depth, w_err, w_result, w_last, w_naps, accepted, calls,
                   reported, announced>>

PostRateLimited == PostRateLimitedUpTo(MaxErrors)

\* PostError with line 207 before the error handling: the file is put
\* on record although the service refused it.
PostError_Records ==
    /\ w_pc = "post"
    /\ errors < MaxErrors
    /\ errors' = errors + 1
    /\ posts' = [posts EXCEPT ![w_path] = @ + 1]
    /\ w_calls' = w_calls + 1
    /\ WorkerSleep(ErrorSleep, "return")
    /\ w_cache' = [w_cache EXCEPT !.files = Append(@, w_path)]
    /\ cacheFile' = [cacheFile EXCEPT ![w_challenge] = Dump(w_cache')]
    /\ UNCHANGED <<otherVars, statusVars, mainVars, competeVars, crashDir,
                   w_challenge, w_todo, w_path, w_status, w_depth, w_err,
                   w_result, w_last, w_naps, accepted, calls, reported,
                   announced>>

\* Lines 188-195 and 200-203: the POST is answered with another HTTP
\* error; the thread sleeps ten seconds and returns None.
PostError ==
    /\ w_pc = "post"
    /\ errors < MaxErrors
    /\ errors' = errors + 1
    /\ posts' = [posts EXCEPT ![w_path] = @ + 1]
    /\ w_calls' = w_calls + 1
    /\ WorkerSleep(ErrorSleep, "return")
    /\ UNCHANGED <<otherVars, statusVars, mainVars, competeVars, crashDir,
                   cacheFile, w_challenge, w_todo, w_path, w_status, w_cache,
                   w_depth, w_err, w_result, w_last, w_naps, accepted, calls,
                   reported, announced>>

\* Lines 188-190 and 205-242: the POST is answered with a result; the file
\* is added to the cache, new bugs are recorded and logged, the cache is
\* written, and submit_solution returns.
PostOk ==
    /\ w_pc = "post"
    /\ \E result \in Results :
        LET listed == [w_cache EXCEPT !.files = Append(@, w_path)]
            cache == RecordBugs(listed, result, clock)
            new_bugs == NewBugs(listed, result)
        IN  /\ w_result' = result
            /\ w_cache' = cache
            /\ cacheFile' = [cacheFile EXCEPT ![w_challenge] =
                                Persist(cache, result, @)]
            /\ reported' = [b \in BugIds |->
                              IF result.status = 0 /\ b \in result.bug_ids
                                  THEN UpTo2(reported[b]) ELSE reported[b]]
            /\ announced' = [b \in BugIds |->
                              IF b \in new_bugs
                                  THEN UpTo2(announced[b]) ELSE announced[b]]
    /\ posts' = [posts EXCEPT ![w_path] = @ + 1]
    /\ accepted' = [accepted EXCEPT ![w_path] = @ + 1]
    /\ w_calls' = w_calls + 1
    /\ w_last' = "ok"
    /\ w_pc' = "loop"
    /\ UNCHANGED <<otherVars, statusVars, mainVars, competeVars, crashDir,
                   w_challenge, w_todo, w_path, w_status, w_depth, w_wake,
                   w_after, w_err, w_naps, calls, errors>>

\* time.sleep returns.  After the cool-down of line 198 submit_solution
\* calls itself (line 199) with the status it has: lines 165-169 pass
\* again and the call continues at line 171, one frame deeper; the
\* interpreter raises RecursionError at its recursion limit.
WorkerWake ==
    /\ w_pc = "sleep"
    /\ clock >= w_wake
    /\ IF w_after = "retry" THEN
            /\ w_naps' = w_naps + 1
            /\ w_last' = w_last
            /\ IF w_depth + 1 >= RecursionLimit
                THEN WorkerDead("RecursionError") /\ w_depth' = w_depth
                ELSE w_pc' = "load" /\ w_depth' = w_depth + 1 /\ w_err' = w_err
       ELSE IF w_after = "return" THEN
            /\ w_pc' = "loop"
            /\ w_last' = "error"
            /\ UNCHANGED <<w_naps, w_depth, w_err>>
       ELSE /\ w_pc' = "glob"
            /\ UNCHANGED <<w_naps, w_depth, w_err, w_last>>
    /\ UNCHANGED <<otherVars, statusVars, mainVars, competeVars, crashDir,
                   cacheFile, w_challenge, w_todo, w_path, w_status, w_cache,
                   w_wake, w_after, w_result, w_calls, posts, accepted, calls,
                   errors, reported, announced>>

(* -------------------------------- time --------------------------------- *)

\* The main thread is blocked in time.sleep or in Thread.join.
MainBlocked ==
    \/ m_pc = "sleep" /\ clock < m_wake
    \/ m_pc = "joining" /\ Head(joinQ) \in fuzzAlive /\ clock < m_wake

\* Time passes while the main thread is blocked, up to its wake-up.
TickMain ==
    /\ MainBlocked
    /\ clock + TimeStep <= MaxTime
    /\ clock + TimeStep <= m_wake
    /\ clock' = clock + TimeStep
    /\ UNCHANGED <<otherVars, workerVars, statusFile, gs, mainVars,
                   competeVars>>

\* Time passes while the submission thread sleeps, up to its wake-up.
TickWorker ==
    /\ w_pc = "sleep"
    /\ clock + TimeStep <= MaxTime
    /\ clock + TimeStep <= w_wake
    /\ clock' = clock + TimeStep
    /\ UNCHANGED <<otherVars, statusFile, gs, mainVars, competeVars,
                   workerVars>>

\* The same, in one step to the wake-up, at any time.
TickToWake ==
    /\ w_pc = "sleep"
    /\ clock < w_wake
    /\ clock' = w_wake
    /\ UNCHANGED <<otherVars, statusFile, gs, mainVars, competeVars,
                   workerVars>>

(* --------------------------- specifications ---------------------------- *)

Main ==
    \/ MainGetStatus
    \/ MainNoStatus
    \/ MainWaiting
    \/ MainEnded
    \/ MainStale
    \/ MainCompete
    \/ MainWake
    \/ MainFinish

Compete ==
    \/ CompeteGetStatus
    \/ CompetePrepare
    \/ CompeteStart
    \/ CompeteJoin
    \/ CompeteJoined
    \/ CompeteReturn

\* The lifecycle: the controller, the orchestrator, the status store.
Next == Main \/ Compete \/ FuzzExit \/ SubmitterLookup \/ TickMain

Spec == Init /\ [][Next]_vars

(* ------------------------ one submission thread ----------------------- *)

\* The state compete() leaves when it has started the threads of epoch 1
\* at time 0 and waits in its first join, with the submission thread of
\* one challenge at pc, the crash files dir and the files todo of its glob.
InitWorker(pc, dir, todo) ==
    /\ clock = 0
    /\ statusFile = ActiveDoc(1, TRUE)
    /\ gs = [seq |-> 0, force |-> FALSE, ret |-> ActiveDoc(1, TRUE),
             raised |-> "", fetched |-> FALSE, wrote |-> FALSE]
    /\ m_pc = "joining"
    /\ m_status = ActiveDoc(1, TRUE)
    /\ m_wake = EpochEnd(1)
    /\ m_branch = ""
    /\ m_err = ""
    /\ m_answer = Blank
    /\ finished = <<>>
    /\ c_status = ActiveDoc(1, TRUE)
    /\ c_info = 1
    /\ c_joinStart = 0
    /\ joinQ = Ascending(EpochChallenges(1))
    /\ fuzzAlive = EpochChallenges(1)
    /\ submitters = [c \in Challenges |->
                        IF c \in EpochChallenges(1) THEN 1 ELSE 0]
    /\ runs = <<[main |-> 1, ran |-> 1]>>
    /\ crashDir = dir
    /\ cacheFile = [c \in Challenges |-> NoFile]
    /\ w_pc = pc
    /\ w_challenge \in EpochChallenges(1)
    /\ w_todo = todo
    /\ w_path = 1
    /\ w_status = None
    /\ w_cache = EmptyDict
    /\ w_depth = 0
    /\ w_wake = 0
    /\ w_after = ""
    /\ w_err = ""
    /\ w_result = NoResult
    /\ w_last = ""
    /\ w_naps = 0
    /\ w_calls = 0
    /\ posts = [p \in Paths |-> 0]
    /\ accepted = [p \in Paths |-> 0]
    /\ calls = [p \in Paths |-> 0]
    /\ errors = 0
    /\ reported = [b \in BugIds |-> 0]
    /\ announced = [b \in BugIds |-> 0]
    /\ o_pc = "none"
    /\ o_path = 1
    /\ o_cache = EmptyDict

\* The submission thread enters _submit_loop.
InitSubmit == InitWorker("glob", {}, <<>>)

Worker ==
    \/ SubmitLoopGlob
    \/ SubmitLoopCall
    \/ SubmitLoopSleep
    \/ SubmitCall
    \/ SubmitLoad
    \/ PostRateLimited
    \/ PostError
    \/ PostOk
    \/ WorkerWake

NextSubmit == Worker \/ TickWorker

SpecSubmit == InitSubmit /\ [][NextSubmit]_vars

(* ------------------- one submission, rate-limited ---------------------- *)

\* The glob of line 296 has found one crash file; nothing was submitted
\* before.
InitRateLimit == InitWorker("loop", {1}, <<1>>)

\* The service answers with status 7 as often as the interpreter lets
\* the call of line 199 nest.
PostRateLimitedAgain == PostRateLimitedUpTo(RecursionLimit)

NextRateLimit ==
    \/ SubmitLoopCall
    \/ SubmitCall
    \/ SubmitLoad
    \/ PostRateLimitedAgain
    \/ PostOk
    \/ WorkerWake
    \/ TickToWake

SpecRateLimit == InitRateLimit /\ [][NextRateLimit]_vars

(* ------------------- the status store, called directly ----------------- *)

\* get_status(force_reload) called at any time, with either flag.
Refresh ==
    /\ \E force \in BOOLEAN, rem \in RemoteAnswers :
        LET r == get_status(statusFile, clock, force, rem) IN
            /\ gs' = Called(force, r)
            /\ statusFile' = r.file
    /\ UNCHANGED <<otherVars, workerVars, clock, mainVars, competeVars>>

\* Time passes between two calls.
TickFree ==
    /\ clock + TimeStep <= MaxTime
    /\ clock' = clock + TimeStep
    /\ UNCHANGED <<otherVars, workerVars, statusFile, gs, mainVars,
                   competeVars>>

NextStatus == Refresh \/ TickFree

SpecStatus == Init /\ [][NextStatus]_vars

(* ------------- two submission threads of one challenge ---------------- *)

\* Lines 319-322 of a later compete() whose epoch holds w_challenge while
\* the thread of an earlier one still runs: one more thread enters
\* _submit_loop for the same challenge and the same cache file.
OtherStart ==
    /\ o_pc = "none"
    /\ o_pc' = "idle"
    /\ submitters' = [submitters EXCEPT ![w_challenge] = @ + 1]
    /\ UNCHANGED <<statusVars, mainVars, c_status, c_info, c_joinStart, joinQ,
                   fuzzAlive, runs, workerVars, o_path, o_cache>>

\* Lines 296-297 and 165-186 in the other thread: a call for one of the
\* crash files, up to the skip test.
OtherCall ==
    /\ o_pc = "idle"
    /\ \E p \in crashDir, rem \in RemoteAnswers :
       LET r == get_status(statusFile, clock, FALSE, rem)
           raises == \/ r.raised # ""
                     \/ r.ret = None
                     \/ r.ret.id = 0
                     \/ w_challenge \notin ChallengeIds(r.ret)
                     \/ ~Readable(cacheFile[w_challenge])
           cache == ReadCache(cacheFile[w_challenge])
       IN  /\ statusFile' = r.file
           /\ o_path' = p
           /\ IF raises
               THEN o_pc' = "dead" /\ o_cache' = o_cache
               ELSE /\ o_cache' = cache
                    /\ o_pc' = IF AlreadySubmitted(cache, p)
                                   THEN "idle" ELSE "post"
    /\ UNCHANGED <<clock, gs, mainVars, competeVars, workerVars>>

\* Lines 188-190 and 205-242 in the other thread.
OtherPostOk ==
    /\ o_pc = "post"
    /\ \E result \in Results :
        LET listed == [o_cache EXCEPT !.files = Append(@, o_path)]
            cache == RecordBugs(listed, result, clock)
            new_bugs == NewBugs(listed, result)
        IN  /\ o_cache' = cache
            /\ cacheFile' = [cacheFile EXCEPT ![w_challenge] =
                                Persist(cache, result, @)]
            /\ reported' = [b \in BugIds |->
                              IF result.status = 0 /\ b \in result.bug_ids
                                  THEN UpTo2(reported[b]) ELSE reported[b]]
            /\ announced' = [b \in BugIds |->
                              IF b \in new_bugs
                                  THEN UpTo2(announced[b]) ELSE announced[b]]
    /\ posts' = [posts EXCEPT ![o_path] = @ + 1]
    /\ accepted' = [accepted EXCEPT ![o_path] = @ + 1]
    /\ o_pc' = "idle"
    /\ UNCHANGED <<statusVars, mainVars, competeVars, crashDir, w_pc,
                   w_challenge, w_todo, w_path, w_status, w_cache, w_depth,
                   w_wake, w_after, w_err, w_result, w_last, w_naps, w_calls,
                   calls, errors, o_path>>

\* The glob of line 296 has found the crash files; nothing was submitted
\* before.
InitTwoWriters == InitWorker("loop", Paths, Ascending(Paths))

NextTwoWriters ==
    \/ SubmitLoopCall
    \/ SubmitCall
    \/ SubmitLoad
    \/ PostOk
    \/ OtherStart
    \/ OtherCall
    \/ OtherPostOk

\* One scan of _submit_loop beside the other thread's calls.
SpecTwoWriters == InitTwoWriters /\ [][NextTwoWriters]_vars

(* ---------------- a write of the cache file cut short ------------------ *)

\* Lines 188-190 and 205-238, the process killed inside the write of
\* lines 237-238: the result has come and was logged, the file is left
\* with the part of the pickle written so far.
PostOkInterrupted ==
    /\ w_pc = "post"
    /\ \E result \in Results :
        LET listed == [w_cache EXCEPT !.files = Append(@, w_path)]
            cache == RecordBugs(listed, result, clock)
            new_bugs == NewBugs(listed, result)
            whole == Persist(cache, result, cacheFile[w_challenge])
        IN  /\ w_result' = result
            /\ w_cache' = cache
            /\ \E n \in 0..Len(whole.items) :
                cacheFile' = [cacheFile EXCEPT ![w_challenge] =
                                Truncated(whole, n)]
            /\ reported' = [b \in BugIds |->
                              IF result.status = 0 /\ b \in result.bug_ids
                                  THEN UpTo2(reported[b]) ELSE reported[b]]
            /\ announced' = [b \in BugIds |->
                              IF b \in new_bugs
                                  THEN UpTo2(announced[b]) ELSE announced[b]]
    /\ posts' = [posts EXCEPT ![w_path] = @ + 1]
    /\ accepted' = [accepted EXCEPT ![w_path] = @ + 1]
    /\ w_calls' = w_calls + 1
    /\ WorkerDead("killed")
    /\ UNCHANGED <<otherVars, statusVars, mainVars, competeVars, crashDir,
                   w_challenge, w_todo, w_path, w_status, w_depth, w_wake,
                   w_after, w_last, w_naps, calls, errors>>

\* The process is started again while the epoch runs: main() and
\* compete() start the threads anew (lines 300-322) and the submission
\* thread of the challenge enters _submit_loop; the files on disk stay.
Restart ==
    /\ w_pc = "dead"
    /\ w_pc' = "glob"
    /\ w_err' = ""
    /\ w_todo' = <<>>
    /\ w_status' = None
    /\ w_cache' = EmptyDict
    /\ w_depth' = 0
    /\ w_result' = NoResult
    /\ w_last' = ""
    /\ w_naps' = 0
    /\ w_calls' = 0
    /\ UNCHANGED <<otherVars, statusVars, mainVars, competeVars, crashDir,
                   cacheFile, w_challenge, w_path, w_wake, w_after, posts,
                   accepted, calls, errors, reported, announced>>

NextInterrupt ==
    \/ SubmitLoopGlob
    \/ SubmitLoopCall
    \/ SubmitCall
    \/ SubmitLoad
    \/ PostOk
    \/ PostOkInterrupted
    \/ Restart

SpecInterrupt == InitSubmit /\ [][NextInterrupt]_vars

(* -------------- a cool-down while the descriptor changes --------------- *)

\* A lookup of line 166 by a submission thread that goes on running
\* beside the modelled one; it may refresh cache/latest.yaml.
SiblingLookup ==
    /\ SubmitterLookup
    /\ submitters'[w_challenge] = submitters[w_challenge]

NextStale ==
    \/ SubmitLoopCall
    \/ SubmitCall
    \/ SubmitLoad
    \/ PostRateLimited
    \/ PostOk
    \/ WorkerWake
    \/ TickToWake
    \/ SiblingLookup

\* One call of line 297 with its cool-downs, beside the other threads'
\* lookups.
SpecStale == InitRateLimit /\ [][NextStale]_vars

(* ------------------------------ properties ----------------------------- *)

\* This step is a call of get_status.
GetStatusCalled == gs'.seq # gs.seq

\* This step is a step of the main thread.
MainStep == m_pc' # m_pc

InCompete == m_pc \in {"compete", "prepare", "start", "join", "joining",
                       "finish"}

\* A call of submit_solution is under way (or has died in line 169).
InCall ==
    \/ w_pc \in {"call", "load", "post", "dead"}
    \/ w_pc = "sleep" /\ w_after # "glob"

\* The calls submit_solution(p, c) that have returned (counted up to 2).
CallsDone(p) == IF InCall /\ w_path = p THEN calls[p] - 1 ELSE calls[p]

\* The cache of the thread's challenge as a restarted process would load it.
Stored == ReadCache(cacheFile[w_challenge])

\* This step is the arrival of a result (line 205).
GotResult == accepted' # accepted

\* C1: once submit_solution(p, c) has been called twice, exactly one POST
\* has been made for p.
C1_TwoCallsOnePost ==
    \A p \in Paths : CallsDone(p) >= 2 => posts[p] = 1

\* C1 as amended: a file whose submission got a result is in
\* submitted_files and no second result is ever got for it; every later
\* call for it returns without a POST and leaves the cache file as it is.
C1_SubmittedNoOp ==
    [][/\ \A p \in Paths :
            /\ accepted[p] <= 1
            /\ accepted'[p] <= 1
            /\ accepted'[p] = 1 => InList(p, Stored'.files)
       /\ (w_pc = "load" /\ accepted[w_path] = 1)
            => /\ w_pc' = "loop"
               /\ w_last' = "skip"
               /\ posts' = posts
               /\ cacheFile' = cacheFile]_vars

\* C1 witness: the second call for a submitted file has returned, with
\* the one POST of the first call.
C1_Witness ==
    /\ w_last = "skip"
    /\ w_pc = "loop"
    /\ calls[w_path] = 2
    /\ accepted[w_path] = 1
    /\ posts[w_path] = 1

\* C2: a bug id that results with status 0 have reported, however often,
\* has exactly one record in the cache file and was listed exactly once
\* as a new bug, by the first result that reported it; a bug id never
\* reported has no record.
C2_OneRecordOneNotice ==
    \A b \in BugIds :
        LET items == cacheFile[w_challenge].items
            recs == {i \in 1..Len(items) :
                        items[i].key = "bug" /\ items[i].id = b}
        IN  /\ reported[b] = 0 => recs = {} /\ announced[b] = 0
            /\ reported[b] >= 1 => Cardinality(recs) = 1 /\ announced[b] = 1

\* C2 witness: two files were submitted and both results reported the
\* same bug.
C2_Witness ==
    /\ \A p \in Paths : accepted[p] = 1
    /\ \E b \in BugIds : reported[b] = 2 /\ announced[b] = 1

\* C3: after a result with status 0, the record of each of its bug_ids
\* has first = TRUE exactly when the bug is in the result's first_ids.
C3_FirstFollowsResult ==
    [][(GotResult /\ w_result'.status = 0)
        => \A b \in w_result'.bug_ids :
            /\ b \in DOMAIN Stored'.bugs
            /\ Stored'.bugs[b].first = (b \in w_result'.first_ids)]_vars

\* C3 as amended: after a result with status 0, each of its bug_ids has a
\* record; a bug the cache did not hold has first = TRUE exactly when it
\* is in the result's first_ids, and the record of a bug the cache held
\* is the one it held.
C3_FirstSetOnce ==
    [][(GotResult /\ w_result'.status = 0)
        => \A b \in w_result'.bug_ids :
            /\ b \in DOMAIN Stored'.bugs
            /\ IF b \in DOMAIN Stored.bugs
                THEN Stored'.bugs[b] = Stored.bugs[b]
                ELSE /\ Stored'.bugs[b].first = (b \in w_result'.first_ids)
                     /\ Stored'.bugs[b].found_at = clock]_vars

\* C3 witness: a result has reported a bug for the second time, and a
\* bug in its first_ids.
C3_Witness ==
    /\ w_last = "ok"
    /\ w_result.status = 0
    /\ w_result.first_ids # {}
    /\ \E b \in w_result.bug_ids : reported[b] = 2

\* C4: a submission answered by n rate-limit responses and then a result
\* has slept n times and made n + 1 POSTs, and its file is once in
\* submitted_files; no number of rate-limit responses ends it.
C4_RateLimitResilience ==
    /\ w_last = "ok"
        => /\ w_calls = w_naps + 1
           /\ Cardinality({i \in 1..Len(Stored.files) :
                                Stored.files[i] = w_path}) = 1
    /\ (w_pc = "sleep" /\ w_after = "retry")
        => w_wake - clock \in {0, RateLimitSleep}
    /\ w_err # "RecursionError"

\* C5: compete() does not wait for its workers past the end of the
\* descriptor it runs with: while it is blocked in a join on a running
\* fuzz thread the end has not come, and it returns no later than that end
\* (or than the time its join loop began, when that is later), with
\* whatever workers are still running.
C5_ReturnsByEnd ==
    /\ (m_pc = "joining" /\ Head(joinQ) \in fuzzAlive /\ clock < m_wake)
            => clock < c_status.end
    /\ m_pc = "finish" /\ runs # <<>> /\ EpochChallenges(c_info) # {}
            => /\ c_status.hasEnd
               /\ clock <= Max(c_status.end, c_joinStart)

\* C5 witness: compete() has returned at the end of the epoch, after
\* waiting, with both fuzz workers still running.
C5_Witness ==
    /\ m_pc = "finish"
    /\ Cardinality(fuzzAlive) = 2
    /\ c_joinStart < c_status.end
    /\ clock = c_status.end

\* C6: when the status has a null id and a next_start T, the controller's
\* step sleeps until T, changes neither the finished list nor the runs of
\* the orchestrator, and after the sleep looks the status up again.
C6_WaitingSleeps ==
    [][/\ (m_pc = "check" /\ m_status.kind = "doc" /\ m_status.id = 0
            /\ m_status.nextKey = "set" /\ MainStep)
            => /\ m_pc' = "sleep"
               /\ m_wake' = m_status.next
               /\ finished' = finished
               /\ runs' = runs
       /\ (m_pc = "sleep" /\ m_branch = "waiting" /\ MainStep)
            => m_pc' = "get_status" /\ clock >= m_wake]_vars

\* C7: after a call that got a result, the cache loaded from the file has
\* the submitted_files and the bug records the call ended with.
C7_ReloadSame ==
    w_last = "ok"
        => /\ cacheFile[w_challenge].exists
           /\ Load(cacheFile[w_challenge]).hasFiles
           /\ Load(cacheFile[w_challenge]).files = w_cache.files
           /\ Load(cacheFile[w_challenge]).bugs = w_cache.bugs

\* C7 witness: a call has got a result with the cache holding two files
\* and a bug record.
C7_Witness ==
    /\ w_last = "ok"
    /\ Len(w_cache.files) = 2
    /\ DOMAIN w_cache.bugs # {}

C9_FetchOnlyWhenDue ==
    [][GetStatusCalled =>
        /\ (~gs'.force /\ statusFile.kind = "doc" /\ statusFile.hasEnd
                /\ clock < statusFile.end)
            => ~gs'.fetched /\ gs'.ret = statusFile
        /\ gs'.fetched
            => \/ gs'.force
               \/ statusFile.kind = "none"
               \/ statusFile.hasEnd /\ clock >= statusFile.end]_vars

\* C10: whatever a call writes to the cache has a non-null id and an
\* 'end' that is present and in the future at fetch time.
C10_CachedIsValidated ==
    [][(GetStatusCalled /\ gs'.wrote)
        => /\ statusFile'.id # 0
           /\ statusFile'.hasEnd
           /\ clock < statusFile'.end]_vars

\* C11: the controller has no terminal state: whatever get_status
\* returns and whatever the competition materials are, main() is never
\* ended by an exception.
C11_NoTerminalState ==
    m_pc # "crashed" /\ m_err = ""

\* C13: compete() does not return before the end of its status while a
\* submission thread of a challenge of the epoch is running, so the epoch
\* is not marked finished before then.
C13_WaitsForSubmitters ==
    (m_pc = "finish" /\ \E c \in EpochChallenges(c_info) : submitters[c] > 0)
        => c_status.hasEnd /\ clock >= c_status.end

\* C20: every compete() has run the epoch whose id the controller then
\* appends to finished: the id of compete()'s own status is the id of the
\* status the controller examined.
C20_FinishedIsRun ==
    /\ \A i \in 1..Len(runs) : runs[i].main = runs[i].ran
    /\ m_pc \in {"prepare", "start", "join", "joining", "finish"}
        => c_status.id = m_status.id

\* C12: while the process runs, at most one submission thread is running
\* for each challenge id, so the cache of a challenge has one writer.
C12_SingleWriter ==
    m_err = "" => \A c \in Challenges : submitters[c] <= 1

\* The remote has answered the controller's lookup with a null id and no
\* next start: without the key next_start, or with a null one.
UnknownStart(answer) ==
    answer.kind = "doc" /\ answer.hasId /\ answer.id = 0
        /\ answer.nextKey # "set"

\* C14: when the remote answers the controller's lookup with a null id
\* and no next start, the lookup returns that status, and the controller
\* sleeps one hour (the branch of line 349) before it looks again.
C14_WaitingUnknown ==
    [][/\ (m_pc = "get_status" /\ MainStep /\ UnknownStart(m_answer'))
            => m_pc' = "check" /\ m_status' = m_answer'
       /\ (m_pc = "check" /\ MainStep /\ UnknownStart(m_answer))
            => /\ m_pc' = "sleep"
               /\ m_branch' = "unknown"
               /\ m_wake' = clock + UnknownStartSleep]_vars

\* This step is the arrival of an HTTP error other than the rate limit.
GotError == w_pc = "post" /\ w_pc' = "sleep" /\ w_after' = "return"

\* C15: an HTTP error other than the rate limit makes that one POST and
\* leaves the file out of submitted_files and the cache file as it was;
\* the call then sleeps and returns without another POST; the next glob
\* lists the file again and the call for it posts it again.
C15_ErrorThenRetry ==
    [][/\ GotError
            => /\ posts' = [posts EXCEPT ![w_path] = @ + 1]
               /\ cacheFile' = cacheFile
               /\ ~InList(w_path, w_cache'.files)
               /\ ~InList(w_path, Stored'.files)
       /\ (w_pc = "sleep" /\ w_after = "return")
            => /\ posts' = posts
               /\ cacheFile' = cacheFile
               /\ w_pc' \in {"sleep", "loop"}
               /\ w_pc' = "loop" => w_last' = "error"
       /\ w_pc = "glob" => \A p \in crashDir : InList(p, w_todo')
       /\ (w_pc = "load" /\ accepted[w_path] = 0) => w_pc' = "post"]_vars

\* C15 witness: a file refused with an error in one scan has been posted
\* again in a later scan, and accepted.
C15_Witness ==
    /\ w_last = "ok"
    /\ w_calls = 1
    /\ errors = 1
    /\ posts[w_path] = 2
    /\ accepted[w_path] = 1

\* C16: a result with status 1 or above changes no bug record, in the
\* dict or in the cache file; the file is in the submitted_files of the
\* written cache, and no file that got a result is ever posted again.
C16_NoCrashKeepsBugs ==
    [][/\ (GotResult /\ w_result'.status >= 1)
            => /\ w_cache'.bugs = w_cache.bugs
               /\ Stored'.bugs = Stored.bugs
               /\ cacheFile'[w_challenge].exists
               /\ InList(w_path, Stored'.files)
       /\ \A p \in Paths : accepted[p] >= 1 => posts'[p] = posts[p]]_vars

\* C16 witness: a result with status 1 or above that lists a bug has
\* come for the second of two files; the first one was looked at again.
C16_Witness ==
    /\ w_last = "ok"
    /\ w_result.status >= 1
    /\ w_result.bug_ids # {}
    /\ Len(w_cache.files) = 2
    /\ \E p \in Paths : calls[p] = 2 /\ posts[p] = 1

\* The cache file of challenge c holds all that the file old held.
Keeps(old, new) ==
    LET was == ReadCache(old)
        is == ReadCache(new)
    IN  /\ \A p \in Paths : InList(p, was.files) => InList(p, is.files)
        /\ \A b \in DOMAIN was.bugs :
              b \in DOMAIN is.bugs /\ is.bugs[b] = was.bugs[b]

\* C17: the cache file of a challenge is append-only: no step of any
\* submit_solution call, in any interleaving, removes a path from its
\* submitted_files or a bug id from its keys, or changes a stored record.
C17_AppendOnly ==
    [][\A c \in Challenges : Keeps(cacheFile[c], cacheFile'[c])]_vars

\* While the cache file of the thread's challenge cannot be read, no
\* POST is sent and no cache file is written.
UnreadableStops ==
    ~Readable(cacheFile[w_challenge])
        => posts' = posts /\ cacheFile' = cacheFile

\* C18: the write of the cache file is atomic: whatever interrupts it,
\* a readable cache file stays readable; and while the file cannot be
\* read submit_solution neither posts nor writes it.
C18_AtomicWrite ==
    [][/\ \A c \in Challenges :
            Readable(cacheFile[c]) => Readable(cacheFile'[c])
       /\ UnreadableStops]_vars

\* cache/latest.yaml describes a competition that w_challenge is not
\* part of.
Foreign ==
    /\ statusFile.kind = "doc"
    /\ statusFile.id # 0
    /\ w_challenge \notin ChallengeIds(statusFile)

\* C19: once the current descriptor is that of an epoch without the
\* thread's challenge id, submit_solution sends no POST for it and
\* writes no cache file.
C19_NoForeignSubmission ==
    [][Foreign => posts' = posts /\ cacheFile' = cacheFile]_vars

====
